---- MODULE Spec2Model ----
(***************************************************************************)
(* ftp-over-s3: an S3-over-HTTP gateway in front of one FTP connection.    *)
(*                                                                         *)
(* Strings of the program are modelled as sequences over an alphabet of    *)
(* atoms: one-character strings ("/", ".", "a") and a few whole words that *)
(* the code only ever handles as a unit ("default", "health", the tokens   *)
(* of the Authorization header).  Every string function of the code is an  *)
(* operator on such sequences.                                             *)
(***************************************************************************)
EXTENDS Integers, Sequences, FiniteSets, TLC

(***************************************************************************)
(* strings.*, path/filepath.*                                              *)
(***************************************************************************)

\* strings.HasPrefix
HasPrefix(s, p) ==
    /\ Len(p) <= Len(s)
    /\ SubSeq(s, 1, Len(p)) = p

\* strings.HasSuffix
HasSuffix(s, p) ==
    /\ Len(p) <= Len(s)
    /\ SubSeq(s, Len(s) - Len(p) + 1, Len(s)) = p

\* strings.TrimPrefix
TrimPrefix(s, p) ==
    IF HasPrefix(s, p) THEN SubSeq(s, Len(p) + 1, Len(s)) ELSE s

\* strings.TrimSuffix
TrimSuffix(s, p) ==
    IF HasSuffix(s, p) THEN SubSeq(s, 1, Len(s) - Len(p)) ELSE s

\* strings.Index: the 0-based index of the first occurrence of d in s, -1 if none
Index(s, d) ==
    LET hits == { i \in 0..(Len(s) - Len(d)) : SubSeq(s, i + 1, i + Len(d)) = d }
    IN  IF hits = {} THEN -1
        ELSE CHOOSE i \in hits : \A j \in hits : i <= j

\* strings.Contains
Contains(s, d) == Index(s, d) >= 0

\* strings.Count(s, c) for a one-character c
Count(s, c) == Cardinality({ i \in 1..Len(s) : s[i] = c })

RECURSIVE TrimLeftChar(_, _)
TrimLeftChar(s, c) ==
    IF s # <<>> /\ Head(s) = c THEN TrimLeftChar(Tail(s), c) ELSE s

RECURSIVE TrimRightChar(_, _)
TrimRightChar(s, c) ==
    IF s # <<>> /\ s[Len(s)] = c
    THEN TrimRightChar(SubSeq(s, 1, Len(s) - 1), c)
    ELSE s

\* strings.Trim(s, c) for a one-character cutset
Trim(s, c) == TrimRightChar(TrimLeftChar(s, c), c)

\* strings.Split(s, c) for a one-character separator: always at least one part
RECURSIVE Split(_, _)
Split(s, c) ==
    LET i == Index(s, <<c>>)
    IN  IF i < 0 THEN << s >>
        ELSE << SubSeq(s, 1, i) >> \o Split(SubSeq(s, i + 2, Len(s)), c)

\* strings.SplitN(s, c, 2): cut at the first separator only
SplitN2(s, c) ==
    LET i == Index(s, <<c>>)
    IN  IF i < 0 THEN << s >>
        ELSE << SubSeq(s, 1, i), SubSeq(s, i + 2, Len(s)) >>

\* strings.Join(parts, c)
RECURSIVE Join(_, _)
Join(parts, c) ==
    IF parts = <<>> THEN <<>>
    ELSE IF Len(parts) = 1 THEN parts[1]
    ELSE parts[1] \o <<c>> \o Join(Tail(parts), c)

Dot == << "." >>
DotDot == << ".", "." >>
Slash == << "/" >>

\* The element stack of filepath.Clean: "." and empty elements are dropped,
\* ".." pops the last real element, is dropped at the root of a rooted path
\* and is kept in front of a relative one.
RECURSIVE CleanStack(_, _, _)
CleanStack(segs, rooted, out) ==
    IF segs = <<>> THEN out
    ELSE LET e == Head(segs)
             rest == Tail(segs)
         IN  IF e = <<>> \/ e = Dot THEN CleanStack(rest, rooted, out)
             ELSE IF e = DotDot
                  THEN IF out # <<>> /\ out[Len(out)] # DotDot
                       THEN CleanStack(rest, rooted, SubSeq(out, 1, Len(out) - 1))
                       ELSE IF rooted THEN CleanStack(rest, rooted, out)
                       ELSE CleanStack(rest, rooted, Append(out, e))
                  ELSE CleanStack(rest, rooted, Append(out, e))

\* filepath.Clean (Unix)
Clean(p) ==
    IF p = <<>> THEN Dot
    ELSE LET rooted == (Head(p) = "/")
             out == CleanStack(Split(p, "/"), rooted, <<>>)
         IN  IF rooted THEN Slash \o Join(out, "/")
             ELSE IF out = <<>> THEN Dot
             ELSE Join(out, "/")

\* The 1-based position of the last "/" of p, 0 if there is none
LastSlash(p) ==
    LET hits == { i \in 1..Len(p) : p[i] = "/" }
    IN  IF hits = {} THEN 0 ELSE CHOOSE i \in hits : \A j \in hits : j <= i

\* filepath.Dir (Unix)
Dir(p) == Clean(SubSeq(p, 1, LastSlash(p)))

\* filepath.Base (Unix)
Base(p) ==
    IF p = <<>> THEN Dot
    ELSE LET q == TrimRightChar(p, "/")
         IN  IF q = <<>> THEN Slash
             ELSE SubSeq(q, LastSlash(q) + 1, Len(q))

(***************************************************************************)
(* Errors.  An error is the sequence of the message atoms its text is made *)
(* of: fmt.Errorf("prefix: %v", err) puts one atom in front.  The code     *)
(* classifies an error by substrings of its text; every atom below states  *)
(* which of the substrings it contains.                                    *)
(***************************************************************************)
NoErr == <<>>

MsgBrokenPipe == "write tcp: broken pipe"
MsgNotFound == "550 no such file or directory"
MsgFileExists == "550 file exists"
MsgNotPlainFile == "550 not a plain file"
MsgCannotStore == "553 could not create file"
MsgDialRefused == "dial tcp: connection refused"
MsgLoginIncorrect == "530 login incorrect"
MsgConnectWrap == "failed to connect to FTP server: "
MsgLoginWrap == "failed to login to FTP server: "
MsgListWrap == "failed to list directory: "
MsgListRetryWrap == "failed to list directory after reconnect: "
MsgMkdirWrap == "failed to create directories: "
MsgMkdirRetryWrap == "failed to create directories after reconnect: "

\* fmt.Errorf(prefix + "%v", err)
Wrap(prefix, err) == << prefix >> \o err

\* The atoms whose text contains one of the six connectivity signatures
TransientMsgs == { MsgBrokenPipe, MsgDialRefused }

\* The atoms whose text contains one of the five "already exists" signatures
ExistsMsgs == { MsgFileExists }

\* The atoms whose text contains "550"
Msgs550 == { MsgNotFound, MsgFileExists, MsgNotPlainFile }

\* The test of handleConnectionError: does the text match a connectivity signature
IsTransient(err) == \E i \in 1..Len(err) : err[i] \in TransientMsgs

\* The test of createDirectories on a failed MKD
IsAlreadyExists(err) == \E i \in 1..Len(err) : err[i] \in ExistsMsgs

\* strings.Contains(err.Error(), "550")
Has550(err) == \E i \in 1..Len(err) : err[i] \in Msgs550

(***************************************************************************)
(* Requests and the Authorization header.  A header is a sequence of       *)
(* tokens; the separators the code splits on (" ", ",", "=", "/") are      *)
(* tokens of their own.                                                    *)
(***************************************************************************)
Scheme == "AWS4-HMAC-SHA256"

\* The signature SigV4 yields for a request under a secret at a signing time.
\* The atom names the secret and the time; the rest of the request is fixed.
SigToken(secret, time) ==
    IF secret = "SK1"
    THEN (IF time = "t1" THEN "sig-SK1-t1" ELSE "sig-SK1-t2")
    ELSE "sig-none"

\* Authorization: AWS4-HMAC-SHA256 Credential=<ak>/<date>/us-east-1/s3/aws4_request,SignedHeaders=host,Signature=<sig>
AuthHeader(ak, date, sig) ==
    << Scheme, " ", "Credential", "=" >> \o ak \o
    << "/", date, "/", "us-east-1", "/", "s3", "/", "aws4_request",
       ",", "SignedHeaders", "=", "host", ",", "Signature", "=", sig >>

\* v4.Signer.SignHTTP: signs the request in place.  It sets X-Amz-Date to the
\* signing time and REPLACES the Authorization header by the one it computes;
\* it compares nothing and fails only when signing itself fails.
SignHTTP(creds, r, now, signFails) ==
    [ err  |-> signFails,
      auth |-> IF signFails THEN r.auth
               ELSE AuthHeader(creds.AccessKeyID, now,
                               SigToken(creds.SecretAccessKey, now)),
      date |-> IF signFails THEN r.date ELSE now ]

\* A store that knows every access key id
GetCredentialsAny(store, accessKeyID) ==
    [ ok |-> TRUE,
      creds |-> IF accessKeyID \in DOMAIN store THEN store[accessKeyID]
                ELSE [ AccessKeyID |-> accessKeyID, SecretAccessKey |-> "" ] ]

\* CredentialsStore.GetCredentials
GetCredentials(store, accessKeyID) ==
    IF accessKeyID \in DOMAIN store
    THEN [ ok |-> TRUE, creds |-> store[accessKeyID] ]
    ELSE [ ok |-> FALSE, creds |-> [ AccessKeyID |-> <<>>, SecretAccessKey |-> "" ] ]

HealthPath == << "/", "health" >>

Forwarded(auth, date) ==
    [ kind |-> "forward", status |-> 0, auth |-> auth, date |-> date ]
Rejected(r) ==
    [ kind |-> "reject", status |-> 401, auth |-> r.auth, date |-> r.date ]
Panicked(r) ==
    [ kind |-> "panic", status |-> 0, auth |-> r.auth, date |-> r.date ]

\* AuthMiddleware.ServeHTTP up to its call of the wrapped handler: "forward"
\* with the headers the wrapped handler sees, "reject" (401), or "panic"
\* (index out of range on a header without "=").
Middleware(store, r, now, signFails) ==
    IF DOMAIN store = {} \/ r.path = HealthPath THEN Forwarded(r.auth, r.date)
    ELSE IF r.auth = <<>> THEN Rejected(r)
    ELSE LET parts == SplitN2(r.auth, " ")
         IN  IF Len(parts) # 2 \/ parts[1] # << Scheme >> THEN Rejected(r)
             ELSE LET credStr == Split(parts[2], ",")[1]
                      kv == Split(credStr, "=")
                  IN  IF Len(kv) < 2 THEN Panicked(r)
                      ELSE LET credParts == Split(kv[2], "/")
                           IN  IF Len(credParts) # 5 THEN Rejected(r)
                               ELSE LET got == GetCredentials(store, credParts[1])
                                    IN  IF ~got.ok THEN Rejected(r)
                                        ELSE LET s == SignHTTP(got.creds, r, now, signFails)
                                             IN  IF s.err THEN Rejected(r)
                                                 ELSE Forwarded(s.auth, s.date)

(***************************************************************************)
(* S3Server.ServeHTTP: the dispatch on method, path and query              *)
(***************************************************************************)
DefaultSlash == << "/", "default", "/" >>

\* The dispatch without its default case: an unknown method is served as a GET
RouteAsGet(r) ==
    IF r.method \in { "HEAD", "PUT", "DELETE" }
    THEN (IF r.method = "HEAD" THEN "head" ELSE IF r.method = "PUT" THEN "put" ELSE "delete")
    ELSE IF Count(r.path, "/") = 1 /\ r.listType = << "2" >>
            /\ Trim(r.path, "/") = << "default" >>
         THEN "listV2"
         ELSE IF r.path = Slash
              THEN IF r.listType = << "2" >> THEN "listV2"
                   ELSE IF r.listType # <<>> \/ r.prefix # <<>> THEN "listV1"
                   ELSE "listBuckets"
              ELSE IF r.path = HealthPath THEN "health"
              ELSE "get"

Route(r) ==
    IF r.method = "GET"
    THEN IF Count(r.path, "/") = 1 /\ r.listType = << "2" >>
            /\ Trim(r.path, "/") = << "default" >>
         THEN "listV2"
         ELSE IF r.path = Slash
              THEN IF r.listType = << "2" >> THEN "listV2"
                   ELSE IF r.listType # <<>> \/ r.prefix # <<>> THEN "listV1"
                   ELSE "listBuckets"
              ELSE IF r.path = HealthPath THEN "health"
              ELSE "get"
    ELSE IF r.method = "HEAD" THEN "head"
    ELSE IF r.method = "PUT" THEN "put"
    ELSE IF r.method = "DELETE" THEN "delete"
    ELSE "notAllowed"

\* handleGet / handlePut / handleDelete: the path handed to the Backend Session
ObjectPath(r) ==
    LET path == TrimPrefix(r.path, DefaultSlash)
    IN  IF path = Dot \/ path = <<>> THEN <<>> ELSE path

\* handleHead: the directory it lists and the base name it looks for
HeadDir(r) ==
    LET dir == Dir(TrimPrefix(r.path, DefaultSlash))
    IN  IF dir = Dot THEN <<>> ELSE dir

HeadBase(r) == Base(TrimPrefix(r.path, DefaultSlash))

\* handleListObjectsV2 / handleListObjects: the FTP directory of a prefix
FtpPathOfPrefix(prefix) ==
    IF prefix # <<>>
    THEN LET p == TrimSuffix(prefix, Slash)
         IN  IF p = <<>> THEN Dot ELSE p
    ELSE Dot

\* handleListObjectsV2: result.Name
BucketName(r) ==
    LET b == Trim(r.path, "/")
    IN  IF b = <<>> THEN << "default" >> ELSE b

(***************************************************************************)
(* The Listing Translator                                                  *)
(***************************************************************************)
\* "Construct the full key path"
KeyOf(ftpPath, file) ==
    LET name == IF ftpPath = Dot THEN file.Name
                ELSE ftpPath \o Slash \o file.Name
    IN  IF file.IsDir THEN name \o Slash ELSE name

S3Object(key, file) == [ Key |-> key, Size |-> file.Size ]

InSeq(x, s) == \E i \in 1..Len(s) : s[i] = x

\* The loop of handleListObjectsV2 without the "continue" after a common
\* prefix: the entry goes on to Contents as well
RECURSIVE ListV2LoopBoth(_, _, _, _, _)
ListV2LoopBoth(files, ftpPath, prefix, delimiter, acc) ==
    IF files = <<>> THEN acc
    ELSE LET file == Head(files)
             more == Tail(files)
         IN  IF HasPrefix(file.Name, Dot)
             THEN ListV2LoopBoth(more, ftpPath, prefix, delimiter, acc)
             ELSE LET name == KeyOf(ftpPath, file)
                      rest == TrimPrefix(name, prefix)
                      i == IF delimiter # <<>> THEN Index(rest, delimiter) ELSE -1
                      commonPrefix == prefix \o SubSeq(rest, 1, i + 1)
                      cps == IF i < 0 \/ InSeq(commonPrefix, acc.cps) THEN acc.cps
                             ELSE Append(acc.cps, commonPrefix)
                  IN  ListV2LoopBoth(more, ftpPath, prefix, delimiter,
                          [ contents |-> Append(acc.contents, S3Object(name, file)),
                            cps |-> cps ])

\* The loop of handleListObjectsV2 without the commonPrefixes map: a common
\* prefix is appended every time an entry yields it
RECURSIVE ListV2LoopNoDedup(_, _, _, _, _)
ListV2LoopNoDedup(files, ftpPath, prefix, delimiter, acc) ==
    IF files = <<>> THEN acc
    ELSE LET file == Head(files)
             more == Tail(files)
         IN  IF HasPrefix(file.Name, Dot)
             THEN ListV2LoopNoDedup(more, ftpPath, prefix, delimiter, acc)
             ELSE LET name == KeyOf(ftpPath, file)
                      rest == TrimPrefix(name, prefix)
                      i == IF delimiter # <<>> THEN Index(rest, delimiter) ELSE -1
                  IN  IF i >= 0
                      THEN ListV2LoopNoDedup(more, ftpPath, prefix, delimiter,
                               [ acc EXCEPT !.cps = Append(@, prefix \o SubSeq(rest, 1, i + 1)) ])
                      ELSE ListV2LoopNoDedup(more, ftpPath, prefix, delimiter,
                               [ acc EXCEPT !.contents = Append(@, S3Object(name, file)) ])

\* The loop of handleListObjectsV2 over the entries, acc = [contents, cps]
RECURSIVE ListV2Loop(_, _, _, _, _)
ListV2Loop(files, ftpPath, prefix, delimiter, acc) ==
    IF files = <<>> THEN acc
    ELSE LET file == Head(files)
             more == Tail(files)
         IN  IF HasPrefix(file.Name, Dot)
             THEN ListV2Loop(more, ftpPath, prefix, delimiter, acc)
             ELSE LET name == KeyOf(ftpPath, file)
                      rest == TrimPrefix(name, prefix)
                      i == IF delimiter # <<>> THEN Index(rest, delimiter) ELSE -1
                  IN  IF i >= 0
                      THEN LET commonPrefix == prefix \o SubSeq(rest, 1, i + 1)
                           IN  ListV2Loop(more, ftpPath, prefix, delimiter,
                                   IF InSeq(commonPrefix, acc.cps) THEN acc
                                   ELSE [ acc EXCEPT !.cps = Append(@, commonPrefix) ])
                      ELSE ListV2Loop(more, ftpPath, prefix, delimiter,
                                   [ acc EXCEPT !.contents = Append(@, S3Object(name, file)) ])

\* The loop of handleListObjects (V1): no delimiter handling
RECURSIVE ListV1Loop(_, _, _)
ListV1Loop(files, ftpPath, contents) ==
    IF files = <<>> THEN contents
    ELSE LET file == Head(files)
         IN  IF HasPrefix(file.Name, Dot)
             THEN ListV1Loop(Tail(files), ftpPath, contents)
             ELSE ListV1Loop(Tail(files), ftpPath,
                             Append(contents, S3Object(KeyOf(ftpPath, file), file)))

(***************************************************************************)
(* State                                                                   *)
(***************************************************************************)
VARIABLES
    store,   \* CredentialsStore.credentials: access key id -> Credentials
    conn,    \* FTPClient.conn: 0 is nil, otherwise the id of a connection
    live,    \* the connections dialed and not yet quit
    files,   \* the FTP server's files: path -> content
    dirs,    \* the FTP server's directories (the root, <<>>, always exists)
    proc,    \* per request goroutine: its position and its locals
    faults,  \* the connectivity failures the backend has produced so far
    budget,  \* the connectivity failures the backend produces at most
    served,  \* the requests accepted so far
    hist     \* history: what clients were told, what the server was made to do

vars == << store, conn, live, files, dirs, proc, faults, budget, served, hist >>

\* Bounds of the model
MaxFaults == 2
MaxReqs == 2

\* Two request goroutines at a time
Procs == { 1, 2 }

(***************************************************************************)
(* The FTP server behind the connection (github.com/jlaffaye/ftp on the    *)
(* client side): LIST, RETR, STOR, DELE, MKD on paths relative to the      *)
(* login directory, which is the root of the served tree.                  *)
(***************************************************************************)
\* The server's view of a command path: relative to the root, "." and ".."
\* resolved, ".." at the root staying at the root.
Resolve(s) == TrimPrefix(Clean(Slash \o s), Slash)

Parent(r) ==
    IF LastSlash(r) = 0 THEN <<>> ELSE SubSeq(r, 1, LastSlash(r) - 1)

NameOf(r) == SubSeq(r, LastSlash(r) + 1, Len(r))

IsDirectory(r) == r = <<>> \/ r \in dirs

RECURSIVE SetToSeq(_)
SetToSeq(S) ==
    IF S = {} THEN <<>>
    ELSE LET x == CHOOSE y \in S : TRUE
         IN  << x >> \o SetToSeq(S \ {x})

Entry(name, size, isDir) == [ Name |-> name, Size |-> size, IsDir |-> isDir ]

\* The rows of LIST on directory r: the two pseudo-entries, then its children
Rows(r) ==
    LET kids == { n \in (DOMAIN files) \cup dirs : n # <<>> /\ Parent(n) = r }
        row(n) == IF n \in dirs THEN Entry(NameOf(n), 0, TRUE)
                  ELSE Entry(NameOf(n), Len(files[n]), FALSE)
        order == SetToSeq(kids)
    IN  << Entry(Dot, 0, TRUE), Entry(DotDot, 0, TRUE) >> \o
        [ i \in 1..Len(order) |-> row(order[i]) ]

\* LIST: the rows of a directory, 550 for anything else
SrvList(s) ==
    IF IsDirectory(Resolve(s))
    THEN [ err |-> NoErr, entries |-> Rows(Resolve(s)) ]
    ELSE [ err |-> << MsgNotFound >>, entries |-> <<>> ]

\* The 550 a file command (RETR, DELE) gets on a path that is no file: the
\* path is a directory, or it is not there
NoFileError(s) ==
    IF IsDirectory(Resolve(s)) THEN << MsgNotPlainFile >> ELSE << MsgNotFound >>

\* RETR: the content of a file, 550 for anything else
SrvRetr(s) ==
    IF Resolve(s) \in DOMAIN files
    THEN [ err |-> NoErr, data |-> files[Resolve(s)] ]
    ELSE [ err |-> NoFileError(s), data |-> <<>> ]

\* STOR is accepted for a name in an existing directory that is no directory
StorAccepted(s) ==
    LET r == Resolve(s)
    IN  r # <<>> /\ r \notin dirs /\ IsDirectory(Parent(r))

\* DELE removes files only
DeleAccepted(s) == Resolve(s) \in DOMAIN files

\* MKD: 550 "file exists" on an existing name, 550 when the parent is missing
MkdError(s) ==
    LET r == Resolve(s)
    IN  IF r = <<>> \/ r \in dirs \/ r \in DOMAIN files THEN << MsgFileExists >>
        ELSE IF ~IsDirectory(Parent(r)) THEN << MsgNotFound >>
        ELSE NoErr

\* files with path r holding data
WithFile(r, data) ==
    [ n \in (DOMAIN files) \cup {r} |-> IF n = r THEN data ELSE files[n] ]

\* files without path r
WithoutFile(r) == [ n \in (DOMAIN files) \ {r} |-> files[n] ]

\* The id ftp.Dial gives a new connection
FreshConn == CHOOSE c \in 1..(Cardinality(live) + 2) : c \notin live /\ c # conn

(***************************************************************************)
(* A request goroutine: net/http runs every request in its own goroutine,  *)
(* all of them on the one S3Server and its one FTPClient.                  *)
(***************************************************************************)
NoReq ==
    [ method |-> "", path |-> <<>>, listType |-> <<>>, prefix |-> <<>>,
      delimiter |-> <<>>, auth |-> <<>>, date |-> "", body |-> <<>> ]

\* A response: status 0 stands for a request that was aborted by a panic
\* (net/http recovers it and closes the connection without a response).
Resp(status) ==
    [ status |-> status, contents |-> <<>>, cps |-> <<>>, keyCount |-> 0,
      maxKeys |-> 0, isTruncated |-> FALSE, body |-> <<>>, length |-> -1,
      err |-> NoErr ]

IdleProc ==
    [ pc |-> "idle", req |-> NoReq, fwd |-> [ auth |-> <<>>, date |-> "" ],
      handler |-> "", path |-> <<>>, ret |-> "", err |-> NoErr, site |-> "",
      inRec |-> FALSE, att |-> 1, chain |-> <<>>, di |-> 1, iatt |-> 1,
      datt |-> 1, body |-> <<>>, resp |-> Resp(-1),
      \* history of this request, read by the properties only
      nrec |-> 0,        \* calls of reconnect()
      ncmd |-> 0,        \* backend commands issued
      nstor |-> 0,       \* STORs among them
      tries |-> 0,       \* times the current command was issued
      errs |-> <<>>,     \* the errors the backend commands returned
      last |-> NoErr,    \* the error the operation returned
      rows |-> <<>>,     \* what List returned
      listed |-> FALSE,  \* List returned without error
      raced |-> FALSE,   \* an MKD found the directory already there
      existed |-> FALSE, \* DELETE: the key was a file when the request came
      seen |-> <<>>,     \* GET: the acknowledged content at the time of RETR
      gone |-> {} ]      \* List: the keys acknowledged as deleted at that time

\* The positions inside a Backend Session operation
OpPcs == { "connect", "dial", "quit", "list", "retr", "dele", "exists", "mkd", "stor" }

Done(q, resp) == [ q EXCEPT !.pc = "done", !.resp = resp ]

\* A nil c.conn dereferenced by a command: the goroutine panics
Panic(q) == Done(q, Resp(0))

\* List/Get/Put/Delete: "Clean the path and remove leading slash"
NormPath(path) == TrimPrefix(Clean(path), Slash)

\* List: the empty path is the current directory
NormListPath(path) == IF NormPath(path) = <<>> THEN Dot ELSE NormPath(path)

\* createDirectories: the accumulated prefixes of the non-empty parts
RECURSIVE Accumulate(_, _, _)
Accumulate(parts, current, out) ==
    IF parts = <<>> THEN out
    ELSE IF Head(parts) = <<>> THEN Accumulate(Tail(parts), current, out)
    ELSE LET next == IF current = <<>> THEN Head(parts)
                     ELSE current \o Slash \o Head(parts)
         IN  Accumulate(Tail(parts), next, Append(out, next))

DirChain(dir) == Accumulate(Split(NormPath(dir), "/"), <<>>, <<>>)

\* Put: the directories to ensure before the STOR of path
PutChain(path) == IF Dir(path) # Dot THEN DirChain(Dir(path)) ELSE <<>>

\* List, lines 107-127: the rows without "." and ".."
RECURSIVE FileInfos(_)
FileInfos(entries) ==
    IF entries = <<>> THEN <<>>
    ELSE IF Head(entries).Name = Dot \/ Head(entries).Name = DotDot
         THEN FileInfos(Tail(entries))
         ELSE << Head(entries) >> \o FileInfos(Tail(entries))

\* handleListObjectsV2 after a successful List
ListV2Response(r, infos) ==
    LET acc == ListV2Loop(infos, FtpPathOfPrefix(r.prefix), r.prefix, r.delimiter,
                          [ contents |-> <<>>, cps |-> <<>> ])
    IN  [ Resp(200) EXCEPT !.contents = acc.contents, !.cps = acc.cps,
                           !.keyCount = Len(acc.contents) + Len(acc.cps),
                           !.maxKeys = 1000 ]

\* handleListObjects after a successful List
ListV1Response(r, infos) ==
    [ Resp(200) EXCEPT !.contents = ListV1Loop(infos, FtpPathOfPrefix(r.prefix), <<>>) ]

\* handleHead answering 200 without looking for the entry
HeadResponseAlways(r, infos) ==
    [ Resp(200) EXCEPT !.length = IF infos = <<>> THEN 0 ELSE infos[1].Size ]

\* handleHead after a successful List: the first entry named base, else 404
HeadResponse(r, infos) ==
    LET hits == { i \in 1..Len(infos) : infos[i].Name = HeadBase(r) }
    IN  IF hits = {} THEN Resp(404)
        ELSE LET i == CHOOSE j \in hits : \A k \in hits : j <= k
             IN  [ Resp(200) EXCEPT !.length = infos[i].Size ]

\* The handlers without the conversion of a 550 on LIST into an empty listing
ErrorResponseNoEmpty(handler, err) ==
    IF handler \in { "head", "get", "delete" } /\ Has550(err) THEN Resp(404)
    ELSE [ Resp(500) EXCEPT !.err = err ]

\* handleDelete answering 204 whatever Delete returned
ErrorResponseDeleteOk(handler, err) ==
    IF handler = "delete" THEN Resp(204)
    ELSE IF handler = "listV2" /\ Has550(err) THEN [ Resp(200) EXCEPT !.maxKeys = 1000 ]
    ELSE IF handler = "listV1" /\ Has550(err) THEN Resp(200)
    ELSE IF handler \in { "head", "get" } /\ Has550(err) THEN Resp(404)
    ELSE [ Resp(500) EXCEPT !.err = err ]

\* The handler's answer when its Backend Session operation returned err
ErrorResponse(handler, err) ==
    IF handler = "listV2" /\ Has550(err) THEN [ Resp(200) EXCEPT !.maxKeys = 1000 ]
    ELSE IF handler = "listV1" /\ Has550(err) THEN Resp(200)
    ELSE IF handler \in { "head", "get", "delete" } /\ Has550(err) THEN Resp(404)
    ELSE [ Resp(500) EXCEPT !.err = err ]

OpFailed(q, err) == Done([ q EXCEPT !.last = err ], ErrorResponse(q.handler, err))

\* The handler's answer when List returned the rows
ListOk(q, entries) ==
    Done([ q EXCEPT !.rows = FileInfos(entries), !.listed = TRUE ], IF q.handler = "listV2" THEN ListV2Response(q.req, FileInfos(entries))
            ELSE IF q.handler = "listV1" THEN ListV1Response(q.req, FileInfos(entries))
            ELSE HeadResponse(q.req, FileInfos(entries)))

\* handleConnectionError on a matching error: c.reconnect() is entered
EnterReconnect(q, err, site, ret) ==
    [ q EXCEPT !.pc = "quit", !.err = err, !.site = site, !.ret = ret,
               !.inRec = TRUE, !.nrec = @ + 1 ]

\* The retry without its one-shot limit: every connectivity failure reconnects
CmdFailedAlways(q, err) ==
    IF IsTransient(err)
    THEN [ EnterReconnect(q, err, "op", q.pc) EXCEPT !.att = 2 ]
    ELSE IF q.pc = "list"
         THEN OpFailed(q, Wrap(IF q.att = 1 THEN MsgListWrap ELSE MsgListRetryWrap, err))
         ELSE OpFailed(q, err)

\* The retry without the classification: any first failure reconnects
CmdFailedAnyError(q, err) ==
    IF q.att = 1
    THEN [ EnterReconnect(q, err, "op", q.pc) EXCEPT !.att = 2 ]
    ELSE IF q.pc = "list"
         THEN OpFailed(q, Wrap(MsgListRetryWrap, err))
         ELSE OpFailed(q, err)

\* List/Get/Delete and the STOR of Put: the command returned err
CmdFailed(q, err) ==
    IF q.att = 1 /\ IsTransient(err)
    THEN [ EnterReconnect(q, err, "op", q.pc) EXCEPT !.att = 2 ]
    ELSE IF q.pc = "list"
         THEN OpFailed(q, Wrap(IF q.att = 1 THEN MsgListWrap ELSE MsgListRetryWrap, err))
         ELSE OpFailed(q, err)

\* history: the command just issued returned err
Failed(q, err) == [ q EXCEPT !.errs = Append(@, err) ]

\* Put retrying createDirectories after every connectivity failure
MkdirsFailedAlways(q, err) ==
    IF IsTransient(err)
    THEN [ EnterReconnect(q, err, "outer", "exists")
             EXCEPT !.datt = 2, !.di = 1, !.iatt = 1, !.tries = 0 ]
    ELSE OpFailed(q, Wrap(IF q.datt = 1 THEN MsgMkdirWrap ELSE MsgMkdirRetryWrap, err))

\* Put: createDirectories returned err
MkdirsFailed(q, err) ==
    IF q.datt = 1 /\ IsTransient(err)
    THEN [ EnterReconnect(q, err, "outer", "exists")
             EXCEPT !.datt = 2, !.di = 1, !.iatt = 1, !.tries = 0 ]
    ELSE OpFailed(q, Wrap(IF q.datt = 1 THEN MsgMkdirWrap ELSE MsgMkdirRetryWrap, err))

\* createDirectories: the walk goes on to the next part, or returns nil
MkdirsAdvance(q) ==
    IF q.di < Len(q.chain)
    THEN [ q EXCEPT !.pc = "exists", !.di = @ + 1, !.iatt = 1, !.tries = 0 ]
    ELSE [ q EXCEPT !.pc = "stor", !.att = 1, !.tries = 0 ]

\* createDirectories without the "already exists" clauses
MkdFailedStrict(q, err) ==
    IF q.iatt = 1 /\ IsTransient(err)
    THEN [ EnterReconnect(q, err, "mkd", "exists") EXCEPT !.iatt = 2 ]
    ELSE MkdirsFailed(q, err)

\* createDirectories: MakeDir(current) returned err
MkdFailed(q, err) ==
    IF IsAlreadyExists(err) THEN MkdirsAdvance([ q EXCEPT !.raced = TRUE ])
    ELSE IF q.iatt = 1 /\ IsTransient(err)
         THEN [ EnterReconnect(q, err, "mkd", "exists") EXCEPT !.iatt = 2 ]
         ELSE MkdirsFailed(q, err)

\* A failed reconnect that is ignored: the caller goes on to its retry
ConnectFailedIgnored(q, err) ==
    IF ~q.inRec THEN OpFailed(q, err)
    ELSE [ q EXCEPT !.inRec = FALSE, !.pc = q.ret ]

\* connect() returned err: at the start of an operation the operation returns
\* it; inside reconnect() the caller returns the error it was handling.
ConnectFailed(q, err) ==
    IF ~q.inRec THEN OpFailed(q, err)
    ELSE LET q1 == [ q EXCEPT !.inRec = FALSE ]
         IN  IF q.site = "mkd" THEN MkdirsFailed(q1, q.err)
             ELSE IF q.site = "outer" THEN OpFailed(q1, Wrap(MsgMkdirWrap, q.err))
             ELSE IF q.ret = "list" THEN OpFailed(q1, Wrap(MsgListWrap, q.err))
             ELSE OpFailed(q1, q.err)

\* S3Server.ServeHTTP and the handler it picks, up to the handler's call of
\* the Backend Session
StartOp(q) ==
    LET r == q.req
        h == Route(r)
        q1 == [ q EXCEPT !.handler = h, !.pc = "connect" ]
    IN  IF h = "listBuckets" THEN Done(q1, [ Resp(200) EXCEPT !.contents = << "default" >> ])
        ELSE IF h = "health" THEN Done(q1, [ Resp(200) EXCEPT !.body = << "ok" >> ])
        ELSE IF h = "notAllowed" THEN Done(q1, Resp(405))
        ELSE IF h \in { "listV2", "listV1" }
             THEN [ q1 EXCEPT !.path = NormListPath(FtpPathOfPrefix(r.prefix)), !.ret = "list" ]
        ELSE IF h = "head"
             THEN [ q1 EXCEPT !.path = NormListPath(HeadDir(r)), !.ret = "list" ]
        ELSE IF h = "get"
             THEN [ q1 EXCEPT !.path = NormPath(ObjectPath(r)), !.ret = "retr" ]
        ELSE IF h = "delete"
             THEN [ q1 EXCEPT !.path = NormPath(ObjectPath(r)), !.ret = "dele" ]
        ELSE [ q1 EXCEPT !.path = NormPath(ObjectPath(r)),
                         !.chain = PutChain(NormPath(ObjectPath(r))),
                         !.body = r.body,
                         !.ret = IF PutChain(NormPath(ObjectPath(r))) = <<>>
                                 THEN "stor" ELSE "exists" ]

\* AuthMiddleware.ServeHTTP on request r with outcome m of its checks
Accept(r, m) ==
    LET q == [ IdleProc EXCEPT !.req = r, !.fwd = [ auth |-> m.auth, date |-> m.date ] ]
    IN  IF m.kind = "reject" THEN Done(q, Resp(401))
        ELSE IF m.kind = "panic" THEN Panic(q)
        ELSE StartOp(q)

(***************************************************************************)
(* Actions.  One step is one round trip on the connection (a command, a    *)
(* dial with its login, a quit) or one access to c.conn, together with the *)
(* goroutine-local code up to the next one.                                *)
(***************************************************************************)
Times == { "t1", "t2" }

\* What the backend may answer: what the server's state dictates, or, while
\* the failure budget lasts, a connectivity failure
Outcomes == IF faults < budget THEN { "served", "broken" } ELSE { "served" }

Broken == << MsgBrokenPipe >>

\* A request arrives and runs through the middleware, the dispatch and the
\* handler up to its Backend Session call.  Goroutines are interchangeable:
\* the request takes the first idle one.
Arrive(p, r) ==
    /\ proc[p].pc = "idle"
    /\ \A q \in Procs : q < p => proc[q].pc # "idle"
    /\ served < MaxReqs
    /\ \E now \in Times, signFails \in BOOLEAN :
          proc' = [ proc EXCEPT ![p] =
                      [ Accept(r, Middleware(store, r, now, signFails))
                          EXCEPT !.existed = DeleAccepted(NormPath(ObjectPath(r))) ] ]
    /\ served' = served + 1
    /\ UNCHANGED << store, budget, conn, live, files, dirs, faults, hist >>

\* connect() without the test of the handle: it dials every time
ConnectAlwaysDials(p) ==
    /\ proc[p].pc = "connect"
    /\ proc' = [ proc EXCEPT ![p].pc = "dial" ]
    /\ UNCHANGED << store, budget, conn, live, files, dirs, faults, served, hist >>

\* connect(), line 33: nothing to do when a handle is there
Connect(p) ==
    /\ proc[p].pc = "connect"
    /\ proc' = [ proc EXCEPT ![p] =
                   IF conn # 0 THEN [ @ EXCEPT !.pc = proc[p].ret, !.inRec = FALSE ]
                   ELSE [ @ EXCEPT !.pc = "dial" ] ]
    /\ UNCHANGED << store, budget, conn, live, files, dirs, faults, served, hist >>

\* connect(), lines 40-53: ftp.Dial, Login, c.conn = conn
Dial(p) ==
    /\ proc[p].pc = "dial"
    /\ \E o \in Outcomes \cup (IF faults < budget THEN { "login" } ELSE {}) :
          IF o = "served"
          THEN /\ conn' = FreshConn
               /\ live' = live \cup { FreshConn }
               /\ proc' = [ proc EXCEPT ![p] = [ @ EXCEPT !.pc = proc[p].ret, !.inRec = FALSE ] ]
               /\ faults' = faults
          ELSE /\ proc' = [ proc EXCEPT ![p] = ConnectFailed(@,
                              IF o = "broken" THEN Wrap(MsgConnectWrap, << MsgDialRefused >>)
                              ELSE Wrap(MsgLoginWrap, << MsgLoginIncorrect >>)) ]
               /\ faults' = faults + 1
               /\ UNCHANGED << conn, live >>
    /\ UNCHANGED << store, budget, files, dirs, served, hist >>

\* reconnect(), lines 57-60: quit and drop the handle
Quit(p) ==
    /\ proc[p].pc = "quit"
    /\ live' = live \ { conn }
    /\ conn' = 0
    /\ proc' = [ proc EXCEPT ![p].pc = "connect" ]
    /\ UNCHANGED << store, budget, files, dirs, faults, served, hist >>

\* history: a backend command is issued
Issued(q) == [ q EXCEPT !.ncmd = @ + 1, !.tries = @ + 1 ]

\* history: a STOR is issued
Stored(q) == [ Issued(q) EXCEPT !.nstor = @ + 1 ]

\* history: a directoryExists check is issued (it is no command of its own
\* retry cycle: the MKD that follows it is)
Checked(q) == [ q EXCEPT !.ncmd = @ + 1 ]

NoHist == [ acked |-> << >>, deleted |-> {}, made |-> << >> ]

\* f with key k set to v / without key k
Put1(f, k, v) == [ x \in (DOMAIN f) \cup {k} |-> IF x = k THEN v ELSE f[x] ]
Drop1(f, k) == [ x \in (DOMAIN f) \ {k} |-> f[x] ]

\* c.conn.List(path) of List
CmdList(p) ==
    /\ proc[p].pc = "list"
    /\ \E o \in Outcomes :
          /\ proc' = [ proc EXCEPT ![p] =
                         IF conn = 0 THEN Panic(@)
                         ELSE IF o = "broken"
                              THEN CmdFailed(Failed(Issued(@), Broken), Broken)
                         ELSE IF SrvList(@.path).err # NoErr
                              THEN CmdFailed(Failed(Issued(@), SrvList(@.path).err),
                                             SrvList(@.path).err)
                         ELSE ListOk([ Issued(@) EXCEPT !.gone = hist.deleted ],
                                     SrvList(@.path).entries) ]
          /\ faults' = IF conn # 0 /\ o = "broken" THEN faults + 1 ELSE faults
    /\ UNCHANGED << store, budget, conn, live, files, dirs, served, hist >>

\* c.conn.Retr(path) of Get, and handleGet streaming the reader
CmdRetr(p) ==
    /\ proc[p].pc = "retr"
    /\ \E o \in Outcomes :
          /\ proc' = [ proc EXCEPT ![p] =
                         IF conn = 0 THEN Panic(@)
                         ELSE IF o = "broken"
                              THEN CmdFailed(Failed(Issued(@), Broken), Broken)
                         ELSE IF SrvRetr(@.path).err # NoErr
                              THEN CmdFailed(Failed(Issued(@), SrvRetr(@.path).err),
                                             SrvRetr(@.path).err)
                         ELSE Done([ Issued(@) EXCEPT !.seen =
                                       IF Resolve(proc[p].path) \in DOMAIN hist.acked
                                       THEN << hist.acked[Resolve(proc[p].path)] >>
                                       ELSE <<>> ],
                                   [ Resp(200) EXCEPT !.body = SrvRetr(proc[p].path).data ]) ]
          /\ faults' = IF conn # 0 /\ o = "broken" THEN faults + 1 ELSE faults
    /\ UNCHANGED << store, budget, conn, live, files, dirs, served, hist >>

\* c.conn.Delete(path) of Delete.  A connection that breaks may break before
\* the server ran the command or after it (the reply is lost).
CmdDele(p) ==
    /\ proc[p].pc = "dele"
    /\ \E o \in Outcomes, ran \in BOOLEAN :
          LET path == proc[p].path
              does == conn # 0 /\ DeleAccepted(path) /\ (o = "served" \/ ran)
          IN  /\ proc' = [ proc EXCEPT ![p] =
                             IF conn = 0 THEN Panic(@)
                             ELSE IF o = "broken"
                                  THEN CmdFailed(Failed(Issued(@), Broken), Broken)
                             ELSE IF ~DeleAccepted(path)
                                  THEN CmdFailed(Failed(Issued(@), NoFileError(path)),
                                                 NoFileError(path))
                             ELSE Done(Issued(@), Resp(204)) ]
              /\ files' = IF does THEN WithoutFile(Resolve(path)) ELSE files
              /\ faults' = IF conn # 0 /\ o = "broken" THEN faults + 1 ELSE faults
              /\ hist' = IF conn = 0 THEN hist
                          ELSE [ hist EXCEPT
                                   !.acked = Drop1(@, Resolve(path)),
                                   !.deleted = IF o = "served" /\ DeleAccepted(path)
                                               THEN @ \cup { Resolve(path) } ELSE @ ]
    /\ UNCHANGED << store, budget, conn, live, dirs, served >>

\* c.conn.Stor(path, reader) of Put.  The reader is the request body: what a
\* broken transfer has read from it is gone, and the file holds what arrived.
CmdStor(p) ==
    /\ proc[p].pc = "stor"
    /\ \E o \in Outcomes, n \in 0..Len(proc[p].body) :
          LET path == proc[p].path
              body == proc[p].body
              sent == IF o = "served" THEN Len(body) ELSE n
              does == conn # 0 /\ StorAccepted(path) /\ (o = "served" \/ n > 0)
          IN  /\ proc' = [ proc EXCEPT ![p] =
                             IF conn = 0 THEN Panic(@)
                             ELSE IF ~StorAccepted(path) /\ o = "served"
                                  THEN CmdFailed(Failed(Stored(@), << MsgCannotStore >>),
                                                 << MsgCannotStore >>)
                             ELSE IF o = "broken"
                                  THEN CmdFailed(
                                         [ Failed(Stored(@), Broken) EXCEPT !.body =
                                             IF StorAccepted(path)
                                             THEN SubSeq(body, n + 1, Len(body)) ELSE body ],
                                         Broken)
                             ELSE Done([ Stored(@) EXCEPT !.body = <<>> ], Resp(200)) ]
              /\ files' = IF does THEN WithFile(Resolve(path), SubSeq(body, 1, sent)) ELSE files
              /\ faults' = IF conn # 0 /\ o = "broken" THEN faults + 1 ELSE faults
              /\ hist' = IF conn = 0 THEN hist
                          ELSE [ hist EXCEPT
                                   !.deleted = @ \ { Resolve(path) },
                                   !.acked = IF o = "served" /\ StorAccepted(path)
                                             THEN Put1(@, Resolve(path), proc[p].req.body)
                                             ELSE Drop1(@, Resolve(path)) ]
    /\ UNCHANGED << store, budget, conn, live, dirs, served >>

\* directoryExists(current) of createDirectories: any error means "no"
CmdExists(p) ==
    /\ proc[p].pc = "exists"
    /\ \E o \in Outcomes :
          /\ proc' = [ proc EXCEPT ![p] =
                         IF conn = 0 THEN Panic(@)
                         ELSE IF o = "served" /\ SrvList(@.chain[@.di]).err = NoErr
                              THEN MkdirsAdvance(Checked(@))
                         ELSE [ Checked(@) EXCEPT !.pc = "mkd" ] ]
          /\ faults' = IF conn # 0 /\ o = "broken" THEN faults + 1 ELSE faults
    /\ UNCHANGED << store, budget, conn, live, files, dirs, served, hist >>

\* c.conn.MakeDir(current) of createDirectories
CmdMkd(p) ==
    /\ proc[p].pc = "mkd"
    /\ \E o \in Outcomes, ran \in BOOLEAN :
          LET cur == proc[p].chain[proc[p].di]
              does == conn # 0 /\ MkdError(cur) = NoErr /\ (o = "served" \/ ran)
          IN  /\ proc' = [ proc EXCEPT ![p] =
                             IF conn = 0 THEN Panic(@)
                             ELSE IF o = "broken"
                                  THEN MkdFailed(Failed(Issued(@), Broken), Broken)
                             ELSE IF MkdError(cur) # NoErr
                                  THEN MkdFailed(Failed(Issued(@), MkdError(cur)), MkdError(cur))
                             ELSE MkdirsAdvance(Issued(@)) ]
              /\ dirs' = IF does THEN dirs \cup { Resolve(cur) } ELSE dirs
              /\ faults' = IF conn # 0 /\ o = "broken" THEN faults + 1 ELSE faults
              /\ hist' = IF does
                          THEN [ hist EXCEPT !.made =
                                   Put1(@, Resolve(cur),
                                        IF Resolve(cur) \in DOMAIN @ THEN @[Resolve(cur)] + 1 ELSE 1) ]
                          ELSE hist
    /\ UNCHANGED << store, budget, conn, live, files, served >>

\* The response is written and the goroutine ends
Finish(p) ==
    /\ proc[p].pc = "done"
    /\ proc' = [ proc EXCEPT ![p] = IdleProc ]
    /\ UNCHANGED << store, budget, conn, live, files, dirs, faults, served, hist >>

(***************************************************************************)
(* Requests, initial states, specifications                                *)
(***************************************************************************)
Req(method, path, listType, prefix, delimiter, auth, body) ==
    [ method |-> method, path |-> path, listType |-> listType, prefix |-> prefix,
      delimiter |-> delimiter, auth |-> auth, date |-> "t1", body |-> body ]

\* An object request without credentials
Obj(method, key, body) ==
    Req(method, DefaultSlash \o key, <<>>, <<>>, <<>>, <<>>, body)

\* A V2 listing of the bucket without credentials
ListV2(prefix, delimiter) ==
    Req("GET", << "/", "default" >>, << "2" >>, prefix, delimiter, <<>>, <<>>)

\* A V1 listing without credentials
ListV1(prefix) == Req("GET", Slash, << "1" >>, prefix, <<>>, <<>>, <<>>)

KeyF == << "f" >>
KeyAF == << "a", "/", "f" >>
KeyAG == << "a", "/", "g" >>
KeyAS == << "a", "/", "s" >>
KeyASF == << "a", "/", "s", "/", "f" >>
KeyAH == << "a", "/", ".", "h" >>
KeyA == << "a" >>
PrefixA == << "a", "/" >>

\* The FTP server's tree at start: empty, or a/f, a/.h, a/s/ and f
EmptyTree == [ files |-> << >>, dirs |-> {} ]
SmallTree ==
    [ files |-> [ n \in { KeyF, KeyAF, KeyAH } |->
                    IF n = KeyF THEN << 1, 2 >> ELSE << 1 >> ],
      dirs |-> { KeyA, KeyAS } ]

NoStore == << >>
OneStore ==
    [ k \in { << "AK1" >> } |-> [ AccessKeyID |-> k, SecretAccessKey |-> "SK1" ] ]

\* NewS3Server / NewFTPClient / NewCredentialsStore (+ AddCredentials in main)
InitBudget(stores, trees, b) ==
    /\ store \in stores
    /\ \E t \in trees : files = t.files /\ dirs = t.dirs
    /\ conn = 0
    /\ live = {}
    /\ proc = [ p \in Procs |-> IdleProc ]
    /\ faults = 0
    /\ budget = b
    /\ served = 0
    /\ hist = NoHist

InitWith(stores, trees) == InitBudget(stores, trees, MaxFaults)

Step(p) ==
    \/ Connect(p)
    \/ Dial(p)
    \/ Quit(p)
    \/ CmdList(p)
    \/ CmdRetr(p)
    \/ CmdDele(p)
    \/ CmdStor(p)
    \/ CmdExists(p)
    \/ CmdMkd(p)
    \/ Finish(p)

NextWith(P, R) ==
    \E p \in P :
        \/ \E r \in R : Arrive(p, r)
        \/ Step(p)

\* Concurrent requests on one gateway, no credentials configured
Reqs ==
    { Obj("PUT", KeyAF, << 1, 2 >>), Obj("PUT", KeyAG, << 3 >>),
      Obj("GET", KeyAF, <<>>), Obj("DELETE", KeyAF, <<>>),
      Obj("HEAD", KeyAF, <<>>), ListV2(PrefixA, Slash) }

Init == InitWith({ NoStore }, { EmptyTree, SmallTree })

Next == NextWith(Procs, Reqs)

Spec == Init /\ [][Next]_vars

\* One request at a time on the same gateway
SpecSeq == Init /\ [][NextWith({ 1 }, Reqs)]_vars

\* Authorization headers: signed with the stored secret, signed with another
\* secret, naming an unknown key, and the malformed ones
AK1 == << "AK1" >>
HGood == AuthHeader(AK1, "t1", SigToken("SK1", "t1"))
HBadSig == AuthHeader(AK1, "t1", SigToken("SK2", "t1"))
HUnknownKey == AuthHeader(<< "AK2" >>, "t1", SigToken("SK2", "t1"))
HWrongScheme == << "AWS4-HMAC-SHA1" >> \o Tail(HGood)
HNoSpace == << Scheme >>
HNoEquals == << Scheme, " ", "Credential" >>
HShortScope ==
    << Scheme, " ", "Credential", "=", "AK1", "/", "t1", "/", "us-east-1", "/", "s3",
       ",", "SignedHeaders", "=", "host", ",", "Signature", "=", "sig-SK1-t1" >>

Signed(r, auth) == [ r EXCEPT !.auth = auth ]

KeyBG == << "b", "/", "g" >>

\* Requests against a gateway with or without credentials, one at a time
ReqsAuth ==
    { Signed(Obj("GET", KeyF, <<>>), h) :
        h \in { <<>>, HGood, HBadSig, HUnknownKey, HWrongScheme, HNoSpace,
                HNoEquals, HShortScope } }
    \cup { Req(m, HealthPath, <<>>, <<>>, <<>>, <<>>, << 1 >>) :
             m \in { "GET", "HEAD", "PUT", "DELETE", "POST" } }
    \cup { Signed(Obj("PUT", KeyBG, << 1 >>), h) : h \in { HGood, HBadSig } }
    \cup { Signed(Obj("DELETE", KeyF, <<>>), HGood),
           Signed(Obj("POST", KeyF, <<>>), HGood),
           Signed(ListV2(PrefixA, Slash), HGood),
           Signed(Req("GET", Slash, <<>>, <<>>, <<>>, <<>>, <<>>), HGood) }

InitAuth == InitWith({ NoStore, OneStore }, { SmallTree })

SpecAuth == InitAuth /\ [][NextWith({ 1 }, ReqsAuth)]_vars

PrefixB == << "b", "/" >>
PrefixAS == << "a", "/", "s", "/" >>
PrefixF == << "f", "/" >>

\* Listings and HEADs of what is there and what is not, one request at a time
ReqsList ==
    { ListV2(prefix, delimiter) :
        prefix \in { <<>>, PrefixA, KeyA, PrefixAS, PrefixB, PrefixF },
        delimiter \in { <<>>, Slash } }
    \cup { ListV1(prefix) : prefix \in { <<>>, PrefixA, PrefixB } }
    \cup { Obj("HEAD", key, <<>>) : key \in { KeyAF, KeyAG, KeyAS, KeyF, KeyBG } }
    \cup { Obj("PUT", KeyAG, << 3 >>), Obj("PUT", KeyBG, << 1 >>),
           Obj("PUT", KeyA, << 1 >>),
           Obj("GET", KeyAF, <<>>), Obj("DELETE", KeyAF, <<>>) }

SpecList == Init /\ [][NextWith({ 1 }, ReqsList)]_vars

\* The longest path a request of SpecPaths carries, in characters
MaxLen == 3

PathAtoms == { "/", ".", "a" }

\* Every path of at most MaxLen characters over "/", "." and "a"
PathInputs == UNION { [ 1..n -> PathAtoms ] : n \in 0..MaxLen }

\* Object requests and listings on every such path, one request at a time
ReqsPaths ==
    { Obj(method, key, << 1 >>) :
        method \in { "GET", "PUT", "DELETE", "HEAD" }, key \in PathInputs }
    \cup { ListV2(prefix, Slash) : prefix \in PathInputs }
    \cup { ListV1(prefix) : prefix \in PathInputs \ { <<>> } }

SpecPaths == Init /\ [][NextWith({ 1 }, ReqsPaths)]_vars

(***************************************************************************)
(* Properties                                                              *)
(***************************************************************************)
InOp(p) == proc[p].pc \in OpPcs

\* C1: two requests handled concurrently are never both inside a Backend
\* Session operation (List, Get, Put, Delete, createDirectories, reconnect).
C1_MutualExclusion ==
    \A p, q \in Procs : p # q => ~(InOp(p) /\ InOp(q))

\* The header is well formed, names a stored key and carries another
\* signature than the one the stored secret yields for the request
WrongSignature(r) ==
    \E ak \in DOMAIN store :
        \E secret \in { "SK1", "SK2" } :
            /\ r.auth = AuthHeader(ak, r.date, SigToken(secret, r.date))
            /\ SigToken(secret, r.date) # SigToken(store[ak].SecretAccessKey, r.date)

\* C2: with credentials configured, a request off /health whose header is
\* well formed and names a stored key but carries a wrong signature is
\* answered 401 and causes no Backend Session operation.
C2_WrongSignatureRejected ==
    \A p \in Procs :
        ( /\ proc[p].pc # "idle"
          /\ DOMAIN store # {}
          /\ proc[p].req.path # HealthPath
          /\ WrongSignature(proc[p].req) )
        => ( /\ proc[p].pc = "done"
             /\ proc[p].resp.status = 401
             /\ proc[p].ncmd = 0 )

\* C3: a request to /health, whatever its method and whether or not
\* credentials are configured, passes without authentication and causes no
\* Backend Session operation.
C3_HealthBypassesBackend ==
    \A p \in Procs :
        (proc[p].pc # "idle" /\ proc[p].req.path = HealthPath)
        => ( /\ proc[p].pc = "done"
             /\ proc[p].resp.status # 401
             /\ proc[p].ncmd = 0 )

(***************************************************************************)
(* Reconnect and retry                                                     *)
(***************************************************************************)
\* The operations that issue one backend command: List, Get, Delete
SingleCmd(q) == q.handler \in { "listV2", "listV1", "head", "get", "delete" }

\* The number of connectivity failures among the errors
Transients(errs) == Cardinality({ i \in 1..Len(errs) : IsTransient(errs[i]) })

C5_RoundTrip ==
    \A p \in Procs :
        ( /\ proc[p].pc = "done"
          /\ proc[p].handler = "get"
          /\ proc[p].resp.status = 200
          /\ proc[p].seen # <<>> )
        => proc[p].resp.body = proc[p].seen[1]

(***************************************************************************)
(* Directory creation                                                      *)
(***************************************************************************)
\* C6: no put fails with an "already exists" error of an MKD (a directory
\* another writer made between the check and the MKD counts as made), and
\* every directory is created by at most one MKD.
C6_NoDuplicateDirectoryFailure ==
    /\ \A p \in Procs :
          (proc[p].handler = "put" /\ proc[p].pc = "done")
          => ~IsAlreadyExists(proc[p].last)
    /\ \A p \in Procs :
          (proc[p].raced /\ proc[p].pc = "done" /\ proc[p].resp.status = 500)
          => ~IsAlreadyExists(proc[p].errs[Len(proc[p].errs)])
    /\ \A d \in DOMAIN hist.made : hist.made[d] <= 1

\* Two puts under the same new directory: one made it, the other's MKD found
\* it there and its put went through
C6_Witness ==
    \E p, q \in Procs :
        /\ p # q
        /\ proc[p].handler = "put" /\ proc[q].handler = "put"
        /\ proc[p].raced
        /\ proc[p].pc = "done"
        /\ proc[p].resp.status = 200
        /\ proc[q].ncmd >= 2
        /\ KeyA \in DOMAIN hist.made

(***************************************************************************)
(* Listings                                                                *)
(***************************************************************************)
Hidden(row) == HasPrefix(row.Name, Dot)

Keys(contents) == { contents[i].Key : i \in 1..Len(contents) }

Elems(s) == { s[i] : i \in 1..Len(s) }

\* C7: in a V2 listing with a delimiter every non-hidden entry of the listed
\* directory lands in exactly one of Contents and CommonPrefixes: in
\* CommonPrefixes as prefix + rest[0..i+1] when its key without the prefix
\* holds the delimiter at first index i, in Contents under its full key
\* otherwise; nothing else is listed; and prefix "a/", delimiter "/" over the
\* file a/f and the directory a/s give Contents [a/f], CommonPrefixes [a/s/].
C7_ContentsOrCommonPrefix ==
    \A p \in Procs :
        LET q == proc[p]
            r == q.req
            ftpPath == FtpPathOfPrefix(r.prefix)
            shown == { i \in 1..Len(q.rows) : ~Hidden(q.rows[i]) }
            key(i) == KeyOf(ftpPath, q.rows[i])
            rest(i) == TrimPrefix(key(i), r.prefix)
            at(i) == Index(rest(i), r.delimiter)
            grouped == { i \in shown : at(i) >= 0 }
        IN  (q.pc = "done" /\ q.handler = "listV2" /\ q.listed /\ r.delimiter # <<>>)
            => /\ \A i \in grouped :
                     /\ InSeq(r.prefix \o SubSeq(rest(i), 1, at(i) + 1), q.resp.cps)
                     /\ key(i) \notin Keys(q.resp.contents)
               /\ \A i \in shown \ grouped :
                     /\ InSeq(S3Object(key(i), q.rows[i]), q.resp.contents)
                     /\ key(i) \notin Elems(q.resp.cps)
               /\ Keys(q.resp.contents) = { key(i) : i \in shown \ grouped }
               /\ Elems(q.resp.cps) =
                     { r.prefix \o SubSeq(rest(i), 1, at(i) + 1) : i \in grouped }
               /\ Len(q.resp.contents) = Cardinality(shown \ grouped)
               /\ Len(q.resp.cps) = Cardinality(Elems(q.resp.cps))
               /\ ( /\ r.prefix = PrefixA
                    /\ r.delimiter = Slash
                    /\ Elems(q.rows) = { Entry(<< "f" >>, 1, FALSE), Entry(<< "s" >>, 0, TRUE),
                                         Entry(<< ".", "h" >>, 1, FALSE) } )
                  => /\ q.resp.contents = << [ Key |-> KeyAF, Size |-> 1 ] >>
                     /\ q.resp.cps = << PrefixAS >>

\* The listing of a/ with delimiter / over a/f, a/.h and a/s
C7_Witness ==
    \E p \in Procs :
        /\ proc[p].pc = "done"
        /\ proc[p].handler = "listV2"
        /\ proc[p].listed
        /\ proc[p].req.prefix = PrefixA
        /\ proc[p].req.delimiter = Slash
        /\ Len(proc[p].rows) = 3
        /\ proc[p].resp.contents = << [ Key |-> KeyAF, Size |-> 1 ] >>
        /\ proc[p].resp.cps = << PrefixAS >>

\* The LIST of the listing came back with the server's not-found
ListNotFound(q) ==
    /\ q.handler \in { "listV1", "listV2" }
    /\ q.pc = "done"
    /\ q.errs # <<>>
    /\ q.errs[Len(q.errs)] = << MsgNotFound >>

\* C8: a V1 or V2 listing whose LIST meets the server's not-found answers
\* 200 with empty Contents and CommonPrefixes and, for V2, KeyCount 0.
C8_MissingDirectoryListsEmpty ==
    \A p \in Procs :
        ListNotFound(proc[p])
        => /\ proc[p].resp.status = 200
           /\ proc[p].resp.contents = <<>>
           /\ proc[p].resp.cps = <<>>
           /\ proc[p].resp.keyCount = 0
           /\ proc[p].resp.err = NoErr

\* A V2 listing of b/, which is not there
C8_Witness ==
    \E p \in Procs :
        /\ ListNotFound(proc[p])
        /\ proc[p].handler = "listV2"
        /\ proc[p].req.prefix = PrefixB
        /\ proc[p].resp.status = 200
        /\ proc[p].resp.keyCount = 0

Lists(q, k) ==
    /\ Resolve(q.path) = Parent(k)
    /\ \E i \in 1..Len(q.rows) : q.rows[i].Name = NameOf(k)

C10_HeadMatchesListing ==
    \A p \in Procs :
        LET q == proc[p]
            hits == { i \in 1..Len(q.rows) : q.rows[i].Name = HeadBase(q.req) }
        IN  (q.pc = "done" /\ q.handler = "head" /\ q.listed)
            => /\ hits = {} => q.resp.status = 404
               /\ hits # {} => q.resp.status = 200
               /\ q.resp.status = 200 =>
                    \E i \in hits : q.resp.length = q.rows[i].Size
               /\ q.resp.status \in { 200, 404 }

\* A HEAD of a/g, which is not among the entries of a/
C10_Witness ==
    \E p \in Procs :
        /\ proc[p].pc = "done"
        /\ proc[p].handler = "head"
        /\ proc[p].listed
        /\ proc[p].req.path = DefaultSlash \o KeyAG
        /\ proc[p].rows # <<>>
        /\ proc[p].resp.status = 404

(***************************************************************************)
(* Path normalization                                                      *)
(***************************************************************************)
\* The request was handed to a Backend Session operation
InSession(q) ==
    /\ q.pc \in OpPcs \cup { "done" }
    /\ q.handler \in { "listV2", "listV1", "head", "get", "put", "delete" }

\* The normalization of the operation the handler calls
Normalize(q, path) ==
    IF q.handler \in { "listV2", "listV1", "head" } THEN NormListPath(path)
    ELSE NormPath(path)

\* C11: the path an operation works on, normalize(p), is a fixed point of the
\* operation's normalization and does not begin with a separator.
C11_NormalizeIdempotent ==
    \A p \in Procs :
        InSession(proc[p])
        => /\ Normalize(proc[p], proc[p].path) = proc[p].path
           /\ ~HasPrefix(proc[p].path, Slash)

(***************************************************************************)
(* Authorization header                                                    *)
(***************************************************************************)
\* The part of the header's first field after its first "=", <<>> if none
CredentialScope(auth) ==
    LET parts == SplitN2(auth, " ")
        cred == IF Len(parts) = 2 THEN Split(parts[2], ",")[1] ELSE <<>>
        i == Index(cred, << "=" >>)
    IN  IF i < 0 THEN <<>> ELSE SubSeq(cred, i + 2, Len(cred))

\* A header that is there and is malformed: wrong scheme token, no second
\* part after a space, no Credential=... field, or a scope that does not
\* have five fields
MalformedHeader(auth) ==
    /\ auth # <<>>
    /\ LET parts == SplitN2(auth, " ")
       IN  \/ Len(parts) # 2
           \/ parts[1] # << Scheme >>
           \/ ~Contains(Split(parts[2], ",")[1], << "Credential", "=" >>)
           \/ Len(Split(CredentialScope(auth), "/")) # 5

\* The request was stopped by the middleware with 401
Stopped401(q) ==
    /\ q.pc = "done"
    /\ q.resp.status = 401
    /\ q.handler = ""
    /\ q.ncmd = 0

\* The middleware has to authenticate the request
Guarded(q) ==
    /\ q.pc # "idle"
    /\ DOMAIN store # {}
    /\ q.req.path # HealthPath

\* C12: with credentials configured and off /health, a request with a
\* malformed Authorization header is answered 401 and not forwarded; the
\* middleware always answers it.
C12_MalformedHeaderRejected ==
    \A p \in Procs :
        (Guarded(proc[p]) /\ MalformedHeader(proc[p].req.auth))
        => Stopped401(proc[p])

\* A well-formed header naming an access key id the store does not hold
UnknownKey(auth) ==
    /\ auth # <<>>
    /\ ~MalformedHeader(auth)
    /\ Split(CredentialScope(auth), "/")[1] \notin DOMAIN store

\* C13: with credentials configured and off /health, a request without an
\* Authorization header or naming an unknown access key id is answered 401
\* and never forwarded; with no credentials configured every request is
\* forwarded as it came, without any check.
C13_UnknownCallerRejected ==
    \A p \in Procs :
        LET q == proc[p]
        IN  /\ (Guarded(q) /\ (q.req.auth = <<>> \/ UnknownKey(q.req.auth)))
               => Stopped401(q)
            /\ (q.pc # "idle" /\ DOMAIN store = {})
               => /\ q.handler # ""
                  /\ q.resp.status # 401
                  /\ q.fwd = [ auth |-> q.req.auth, date |-> q.req.date ]

\* A request naming the unknown key AK2 was answered 401
C13_Witness ==
    \E p \in Procs :
        /\ Guarded(proc[p])
        /\ proc[p].req.auth = HUnknownKey
        /\ UnknownKey(proc[p].req.auth)
        /\ Stopped401(proc[p])

(***************************************************************************)
(* Error mapping                                                           *)
(***************************************************************************)
\* The Backend Session operation of a get, head, delete or listing failed
BackendFailed(q) ==
    /\ q.pc = "done"
    /\ q.handler \in { "get", "head", "delete", "listV1", "listV2" }
    /\ q.last # NoErr

\* The failure is the server's not-found answer to the operation's command
NotFoundFailure(q) ==
    /\ q.errs # <<>>
    /\ q.errs[Len(q.errs)] = << MsgNotFound >>

\* The answer is a 404, or a listing that is empty and successful
SaysNotFound(q) ==
    IF q.handler \in { "listV1", "listV2" } THEN q.resp.status = 200
    ELSE q.resp.status = 404

\* C14: a backend failure is answered 404 (get, head, delete) or with an
\* empty successful listing only when it is the backend's not-found for the
\* requested path; every other backend failure is answered 500 with the
\* error text.
C14_Only404OnNotFound ==
    \A p \in Procs :
        BackendFailed(proc[p])
        => /\ SaysNotFound(proc[p]) => NotFoundFailure(proc[p])
           /\ ~NotFoundFailure(proc[p])
              => (proc[p].resp.status = 500 /\ proc[p].resp.err = proc[p].last)

(***************************************************************************)
(* Methods                                                                 *)
(***************************************************************************)
\* The request reached S3Server.ServeHTTP with a method it does not serve
OtherMethod(q) ==
    /\ q.pc # "idle"
    /\ q.handler # ""
    /\ q.req.method \notin { "GET", "HEAD", "PUT", "DELETE" }

\* C15: a request that reaches the gateway with a method other than GET,
\* HEAD, PUT or DELETE is answered 405 and performs no Backend Session
\* operation.
C15_OtherMethods405 ==
    \A p \in Procs :
        OtherMethod(proc[p])
        => /\ proc[p].pc = "done"
           /\ proc[p].resp.status = 405
           /\ proc[p].ncmd = 0
           /\ proc[p].nrec = 0

\* An authenticated POST of /default/f was answered 405
C15_Witness ==
    \E p \in Procs :
        /\ OtherMethod(proc[p])
        /\ DOMAIN store # {}
        /\ proc[p].req.method = "POST"
        /\ proc[p].req.path = DefaultSlash \o KeyF
        /\ proc[p].resp.status = 405

(***************************************************************************)
(* The connection handle                                                   *)
(***************************************************************************)
\* C16: at most one FTP connection is live (dialed and not yet quit), and
\* every live connection is the one the handle references; with no handle
\* there is no live connection.
C16_SingleLiveConnection ==
    /\ Cardinality(live) <= 1
    /\ \A c \in live : c = conn
    /\ conn = 0 => live = {}

\* Goroutine p leaves the test of the handle in connect()
Tested(p) == proc[p].pc = "connect" /\ proc'[p].pc # "connect"

\* C17: connect() with a handle present dials nothing, logs in nowhere,
\* returns success and leaves the handle as it is; it goes on to dial only
\* when the handle is absent.
C17_ConnectIdempotent ==
    [][ \A p \in Procs :
          Tested(p) =>
            IF conn # 0
            THEN /\ conn' = conn
                 /\ live' = live
                 /\ faults' = faults
                 /\ proc'[p].pc = proc[p].ret
                 /\ proc'[p].last = NoErr
            ELSE proc'[p].pc = "dial" /\ conn' = conn /\ live' = live ]_vars

\* The second request found the handle of the first and went straight to
\* its command: one connection was dialed, nothing failed
C17_Witness ==
    \E p \in Procs :
        /\ served = 2
        /\ faults = 0
        /\ proc[p].pc \in { "list", "retr", "dele", "stor", "exists" }
        /\ proc[p].ncmd = 0
        /\ conn = 1
        /\ live = { 1 }

(***************************************************************************)
(* Failures that are not connectivity failures                             *)
(***************************************************************************)
\* Goroutine p's command has just failed with an error that is not
\* classified as transient
FailedForGood(p) ==
    /\ Len(proc'[p].errs) = Len(proc[p].errs) + 1
    /\ ~IsTransient(proc'[p].errs[Len(proc'[p].errs)])

\* The failure is an MKD answered "already exists", which createDirectories
\* takes as the directory being there
Absorbed(p) ==
    /\ proc[p].pc = "mkd"
    /\ IsAlreadyExists(proc'[p].errs[Len(proc'[p].errs)])

MkdirsError(q) ==
    /\ q.pc = "done"
    /\ q.last # NoErr
    /\ q.last[1] \in { MsgMkdirWrap, MsgMkdirRetryWrap }

\* C19: Put issues its STOR only after createDirectories returned nil, and
\* every ancestor directory of the key is then a directory on the backend;
\* when createDirectories fails no STOR is issued; for a key directly under
\* the root Put issues nothing but the STOR.
C19_DirectoriesBeforeStore ==
    \A p \in Procs :
        LET q == proc[p]
        IN  q.handler = "put" =>
              /\ (q.pc = "stor" \/ q.nstor > 0) =>
                    \A i \in 1..Len(q.chain) : Resolve(q.chain[i]) \in dirs
              /\ MkdirsError(q) => q.nstor = 0
              /\ q.chain = <<>> => q.ncmd = q.nstor

(***************************************************************************)
(* Keys of a listing                                                       *)
(***************************************************************************)
\* C20: every key in the Contents of a V1 or V2 listing has no leading slash
\* and is name for an entry of the root and dirPath + "/" + name otherwise
\* ("/" appended for a directory), dirPath being the backend-relative
\* directory that was listed.
C20_KeysBackendRelative ==
    \A p \in Procs :
        LET q == proc[p]
        IN  (q.pc = "done" /\ q.handler \in { "listV1", "listV2" } /\ q.listed)
            => \A i \in 1..Len(q.resp.contents) :
                  /\ ~HasPrefix(q.resp.contents[i].Key, Slash)
                  /\ \E j \in 1..Len(q.rows) :
                        q.resp.contents[i].Key = KeyOf(q.path, q.rows[j])

(***************************************************************************)
(* The shape of a V2 listing response                                      *)
(***************************************************************************)
\* A V2 listing that was answered with 200
ListedV2(q) ==
    /\ q.pc = "done"
    /\ q.handler = "listV2"
    /\ q.resp.status = 200

\* The rows of a listing that are not hidden
Shown(rows) == { i \in 1..Len(rows) : ~Hidden(rows[i]) }

\* C21: every successful V2 listing response has KeyCount = number of
\* Contents + number of CommonPrefixes, IsTruncated = false and
\* MaxKeys = 1000, and no two of its CommonPrefixes carry the same prefix.
C21_V2ResponseShape ==
    \A p \in Procs :
        LET r == proc[p].resp
        IN  ListedV2(proc[p]) =>
              /\ r.keyCount = Len(r.contents) + Len(r.cps)
              /\ r.isTruncated = FALSE
              /\ r.maxKeys = 1000
              /\ \A i, j \in 1..Len(r.cps) : r.cps[i] = r.cps[j] => i = j

\* A V2 listing of prefix "a" with delimiter "/" in which two entries (a/f
\* and a/s/) yield the one common prefix "a/"
C21_Witness ==
    \E p \in Procs :
        /\ ListedV2(proc[p])
        /\ proc[p].listed
        /\ proc[p].req.prefix = KeyA
        /\ proc[p].req.delimiter = Slash
        /\ Cardinality(Shown(proc[p].rows)) >= 2
        /\ proc[p].resp.cps = << PrefixA >>
        /\ proc[p].resp.keyCount = 1

(***************************************************************************)
(* The single virtual bucket                                               *)
(***************************************************************************)
\* An object request on a key of bucket b, without credentials
InBucket(method, b, key, body) ==
    Req(method, Slash \o b \o Slash \o key, <<>>, <<>>, <<>>, <<>>, body)

BucketDefault == << "default" >>
BucketA == << "a" >>

\* Object requests on the virtual bucket and on a bucket named "a", one
\* request at a time
ReqsBuckets ==
    { InBucket(method, b, key, << 1 >>) :
        method \in { "GET", "HEAD", "PUT", "DELETE" },
        b \in { BucketDefault, BucketA },
        key \in { KeyF, KeyAF } }

SpecBuckets == Init /\ [][NextWith({ 1 }, ReqsBuckets)]_vars

\* The first segment of a request path: the bucket the request names
FirstSegment(path) == Split(TrimPrefix(path, Slash), "/")[1]

\* C22: a GET, HEAD, PUT or DELETE whose first path segment is a bucket name
\* other than "default" performs no Backend Session operation, and for
\* /default/<key> the path GET, PUT and DELETE hand to the backend is the
\* normalized <key> (HEAD lists the directory of that key).
C22_OnlyDefaultBucket ==
    \A p \in Procs :
        LET q == proc[p]
            key == TrimPrefix(q.req.path, DefaultSlash)
        IN  q.handler \in { "get", "head", "put", "delete" } =>
              /\ FirstSegment(q.req.path) # BucketDefault =>
                    /\ q.pc \notin OpPcs
                    /\ q.ncmd = 0
              /\ HasPrefix(q.req.path, DefaultSlash) =>
                    q.path = IF q.handler = "head" THEN NormListPath(Dir(key))
                             ELSE NormPath(key)

(***************************************************************************)
(* Termination: the work of one Backend Session operation is bounded       *)
(***************************************************************************)
\* The connectivity failures of a backend that fails on every command
MaxStorm == 9

\* Requests on a backend that may fail on every command, one at a time
ReqsStorm ==
    { Obj("PUT", KeyASF, << 1 >>), Obj("PUT", KeyAF, << 1 >>), Obj("PUT", KeyF, << 1 >>),
      Obj("GET", KeyAF, <<>>), Obj("DELETE", KeyAF, <<>>), Obj("HEAD", KeyAF, <<>>),
      ListV2(PrefixA, Slash) }

InitStorm == InitBudget({ NoStore }, { EmptyTree, SmallTree }, MaxStorm)

SpecStorm == InitStorm /\ [][NextWith({ 1 }, ReqsStorm)]_vars

\* The backend commands one operation issues at most: two for List, Get and
\* Delete; for Put two STORs and, in each of the two runs of
\* createDirectories, two checks and two MKDs per directory of the key
CmdBound(q) == IF q.handler = "put" THEN 8 * Len(q.chain) + 2 ELSE 2

\* The reconnects one operation performs at most: one for List, Get and
\* Delete; for Put one per directory in each run of createDirectories, one
\* between the runs and one for the STOR
RecBound(q) == IF q.handler = "put" THEN 2 * Len(q.chain) + 2 ELSE 1

\* C23: every invocation of List, Get, Put or Delete issues a bounded number
\* of backend commands and performs a bounded number of reconnects, whatever
\* the backend answers; for Put the bound depends only on the number of
\* directories in the key.
C23_BoundedWork ==
    \A p \in Procs :
        LET q == proc[p]
        IN  q.handler \in { "listV2", "listV1", "head", "get", "put", "delete" } =>
              /\ q.ncmd <= CmdBound(q)
              /\ q.nrec <= RecBound(q)

\* A PUT of a/s/f each of whose commands failed with a broken connection and
\* each of whose reconnects succeeded: two runs of createDirectories, four
\* failed MKDs, three reconnects, and Put has returned
C23_Witness ==
    \E p \in Procs :
        /\ proc[p].pc = "done"
        /\ proc[p].handler = "put"
        /\ Len(proc[p].chain) = 2
        /\ proc[p].ncmd = 8
        /\ proc[p].nrec = 3
        /\ Len(proc[p].errs) = 4
        /\ Transients(proc[p].errs) = 4
        /\ proc[p].last # NoErr
        /\ proc[p].last[1] = MsgMkdirRetryWrap
        /\ conn # 0

(***************************************************************************)
(* The middleware's effect on the request and on the Credential Store      *)
(***************************************************************************)
\* The request carries the signature of the stored secret for its own date
CorrectlySigned(q) ==
    \E ak \in DOMAIN store :
        q.req.auth = AuthHeader(ak, q.req.date,
                                SigToken(store[ak].SecretAccessKey, q.req.date))

\* The middleware handed the request to the Protocol Gateway
WasForwarded(q) == q.handler # ""

\* C24: a correctly signed request is forwarded with the headers it came
\* with, the Authorization header included, and no request changes the
\* Credential Store.
C24_ForwardedUnchanged ==
    [][ /\ store' = store
        /\ \A p \in Procs :
              ( /\ proc[p].pc = "idle"
                /\ Guarded(proc'[p])
                /\ CorrectlySigned(proc'[p])
                /\ WasForwarded(proc'[p]) )
              => /\ proc'[p].fwd.auth = proc'[p].req.auth
                 /\ proc'[p].fwd.date = proc'[p].req.date ]_vars

\* No request changes the Credential Store
StoreUnchanged == [][store' = store]_vars

(***************************************************************************)
(* The handle at the time of use                                           *)
(***************************************************************************)
\* The positions at which c.conn is used to issue a backend command
CmdPcs == { "list", "retr", "dele", "exists", "mkd", "stor" }

\* C25: whenever an operation is about to issue LIST, RETR, STOR, DELE or
\* MKD through c.conn, the handle is present: it stays present from the
\* operation's connect() to each of its uses, whatever other requests do.
C25_HandlePresentAtUse ==
    \A p \in Procs : proc[p].pc \in CmdPcs => conn # 0

(***************************************************************************)
(* Backend paths and the FTP root                                          *)
(***************************************************************************)
\* The path has a ".." segment
Climbs(path) == \E i \in 1..Len(Split(path, "/")) : Split(path, "/")[i] = DotDot

\* C26: the path Get, Put, Delete or List hands to the FTP connection has no
\* ".." segment after normalization, and neither has a directory Put checks
\* or creates: no key addresses a location above the FTP root.
C26_PathsInsideRoot ==
    \A p \in Procs :
        LET q == proc[p]
        IN  q.handler \in { "listV2", "listV1", "head", "get", "put", "delete" } =>
              /\ ~Climbs(q.path)
              /\ \A i \in 1..Len(q.chain) : ~Climbs(q.chain[i])

(***************************************************************************)
(* Failed connects and reconnects                                          *)
(***************************************************************************)
\* The step is goroutine p's ftp.Dial or Login failing
FailedDial(p) ==
    /\ proc[p].pc = "dial"
    /\ proc'[p] # proc[p]
    /\ faults' = faults + 1

\* The operation has returned an error and issued nothing in the step
ReturnedError(p) ==
    /\ proc'[p].pc = "done"
    /\ proc'[p].last # NoErr
    /\ proc'[p].resp.status = 500
    /\ proc'[p].ncmd = proc[p].ncmd

====
